---- MODULE Spec2Model ----
(***************************************************************************)
(* Model of Lampshade's recursive bisectioning (run_rcb_sbatch.py):        *)
(* bisection_job, recursive_bisect, sample_coord and run_in_subdir, with   *)
(* the output directories they create and the classification that          *)
(* RegimeClassifier reads back from them.                                  *)
(*                                                                         *)
(* Coordinates are exact rationals n / CoordDen, kept as the integer n.    *)
(* The initial brackets lie on a grid of step 2^MaxHalvings units, so      *)
(* that every midpoint the search computes is again an integer.            *)
(***************************************************************************)
EXTENDS Integers, Sequences, FiniteSets, TLC

\* ------------------------------------------------------------ bounds
\* Number of halvings the coordinate unit allows to be exact.
MaxHalvings == 4
\* Grid indices 0..GridMax along the first coordinate (epp).
GridMax == 2
\* How many times the scheduler may kill the task.
MaxKills == 1
\* How many times the task is started (first start included).
MaxRuns == 2
\* Time samples in a density log, and rows (chunks) in a time sample.
MaxSamples == 4
MaxBins == 4
\* Time samples in the array a classifier is built from.
MaxTime == 3
\* Densities 0..MaxDensity and thresholds 0..MaxThreshold.
MaxDensity == 1
MaxThreshold == 2
\* Calls of run_gcmc on one Simulation.
MaxCalls == 2

\* ------------------------------------------------------------ units
\* One grid step is 0.1, written in coordinate units.
GridStep == 2 ^ MaxHalvings
\* Coordinate units per 1.0.
CoordDen == 10 * GridStep
\* The first grid coordinate, 0.9.
GridOrigin == 9 * GridStep
\* The coordinate value 1.0.
One == CoordDen

\* RCB_THRESHOLD = 0.05 = RCB_THRESHOLD_NUM / RCB_THRESHOLD_DEN
RCB_THRESHOLD_NUM == 5
RCB_THRESHOLD_DEN == 100

\* Classifications returned by RegimeClassifier.get_classification
NONE == 0
ADSORBED == 1
ABSORBED == 2
Classes == {NONE, ADSORBED, ABSORBED}

\* Mutant: the regimes listed in ascending order.
REGIMES_Ascending == <<NONE, ADSORBED, ABSORBED>>

\* REGIMES = (2, 1, 0): "Ab, ad, no"
REGIMES == <<ABSORBED, ADSORBED, NONE>>

\* REGIMES.index(c): zero-based position of c in REGIMES; -1 stands for the
\* ValueError raised when c is not in the tuple.
RegimesIndex(c) ==
    IF \E i \in 1..Len(REGIMES) : REGIMES[i] = c
    THEN (CHOOSE i \in 1..Len(REGIMES) :
             REGIMES[i] = c /\ \A j \in 1..(i - 1) : REGIMES[j] # c) - 1
    ELSE -1

\* Regime boundaries that occur in `pairs`.
Boundaries == {<<0, 1>>, <<0, 2>>, <<1, 2>>}

\* Initial outer bound coordinates: epp on the grid, eps on two grid lines;
\* the left bound is taken on the first of the two lines.
GridXs == {GridOrigin + i * GridStep : i \in 0..GridMax}
GridYs == {GridOrigin, GridOrigin + GridStep}
GridPoints == {<<x, y>> : x \in GridXs, y \in GridYs}
LeftPoints == {<<x, GridOrigin>> : x \in GridXs}

\* ------------------------------------------------------------ geometry
\* The coordinates are float64.  Rounding is far below one coordinate unit and
\* shows only where the exact separation of a bracket equals RCB_THRESHOLD:
\* there the computed norm is either above the threshold
\* (norm((1.0, 1.0) - (1.05, 1.0)) = 0.050000000000000044 > 0.05) or not
\* (norm((0.0, 0.0) - (0.05, 0.0)) = 0.05).  tieRoundsUp says which holds for
\* the brackets of this task; the same floats give the same result every start.
VARIABLE tieRoundsUp

\* |a - b|^2 in squared coordinate units
Norm2(a, b) == (a[1] - b[1]) * (a[1] - b[1]) + (a[2] - b[2]) * (a[2] - b[2])

\* Mutant: the distance test with >= for >.
AboveThreshold_Inclusive(a, b) ==
    Norm2(a, b) * RCB_THRESHOLD_DEN * RCB_THRESHOLD_DEN
        >= RCB_THRESHOLD_NUM * RCB_THRESHOLD_NUM * CoordDen * CoordDen

\* np.linalg.norm(np.array(l) - np.array(r)) > RCB_THRESHOLD, both sides squared;
\* at exact equality the rounding of the operands decides.
AboveThreshold(a, b) ==
    \/ Norm2(a, b) * RCB_THRESHOLD_DEN * RCB_THRESHOLD_DEN
         > RCB_THRESHOLD_NUM * RCB_THRESHOLD_NUM * CoordDen * CoordDen
    \/ /\ Norm2(a, b) * RCB_THRESHOLD_DEN * RCB_THRESHOLD_DEN
            = RCB_THRESHOLD_NUM * RCB_THRESHOLD_NUM * CoordDen * CoordDen
       /\ tieRoundsUp

\* Mutant: the sum of the bounds divided by 4 where the code divides by 2,
\* after adding the left bound twice more.
Midpoint_Weighted(a, b) == <<(3 * a[1] + b[1]) \div 4, (3 * a[2] + b[2]) \div 4>>

\* tuple((np.array(l) + np.array(r)) / 2)
Midpoint(a, b) == <<(a[1] + b[1]) \div 2, (a[2] + b[2]) \div 2>>

\* 'rcb_{}_{}'.format(epp, eps)
Subdir(p) == <<"rcb", p[1], p[2]>>

\* '../{}/restart.gcmc'.format(subdir)
RestartFilename(subdir) == <<"..", subdir, "restart.gcmc">>

\* The directory a restart filename points into.
RestartDir(filename) == filename[2]

\* ------------------------------------------------------------ state
VARIABLES
    l0, r0, boundary,        \* arguments of bisection_job
    l, r,                    \* arguments of the current recursive_bisect call
    last_restart_filename,   \* the restart file handed on
    classification,          \* result of the last sample_coord
    pc,                      \* position of the task
    raised,                  \* the exception that ended the task, "none" if none
    stdout,                  \* what recursive_bisect printed about the course and
                             \* the end of the search, since this start
    cwd,                     \* working directory of the process
    fs,                      \* output directories: subdir -> contents
    simNow,                  \* subdirs the simulator was invoked for, this start
    evals,                   \* midpoints classified since this start
    coldStarts,              \* equilibration runs started, all starts together
    doneBefore,              \* subdirs complete at the time of a kill
    prev,                    \* outcome of the last start that ran to its end
                             \* (CONVERGED, AMBIGUOUS_TERMINATED or CRASHED)
    runs, kills

\* The components modelled on their own, further down.
VARIABLES
    tasks,                   \* two tasks of a job array in one base directory:
                             \* task number -> its state
    ld,                      \* one call of load_density: its log and how it ended
    rc,                      \* a RegimeClassifier: the array it is built from,
                             \* its fields, and the last call of a method
    bis,                     \* recursive_bisect of one of the three scripts, at
                             \* the step after sample_coord
    sim                      \* a Simulation, its base directory and what its
                             \* calls of run_gcmc have done

unitVars == <<tasks, ld, rc, bis, sim>>

BaseDir == <<".">>

\* No component but the single task is running.
NoTasks == <<>>
NoArray == <<>>
NoCall == [pc |-> "off", lengths |-> <<>>, file |-> <<>>, raised |-> "none", ret |-> NoArray]
NoArea == [twice |-> 0, den |-> 0, nan |-> FALSE]
NoClassifier ==
    [pc |-> "off", dens_solv |-> <<>>, ta_trim |-> 0, solv_ta |-> [num |-> <<>>, den |-> 0],
     poly_inflection |-> 0, in_threshold |-> 0, out_threshold |-> 0, called |-> "none",
     area |-> NoArea, classification |-> -1]
NoBisect ==
    [pc |-> "off", variant |-> "none", boundary |-> <<>>, l |-> <<>>, r |-> <<>>,
     l_in |-> <<>>, r_in |-> <<>>, classification |-> -1, raised |-> "none", message |-> ""]
NoSimulation ==
    [pc |-> "off", dry_run |-> FALSE, has_initial_data_file |-> FALSE, cwd |-> BaseDir,
     dirs |-> {}, dirs_before |-> {}, subdir |-> <<>>, calls |-> 0, mkdirs |-> 0, chdirs |-> 0,
     lammps_runs |-> 0, log_files |-> {}, printed |-> <<>>, raised |-> "none"]
TasksIdle == tasks = NoTasks
LdIdle == ld = NoCall
RcIdle == rc = NoClassifier
BisIdle == bis = NoBisect
SimIdle == sim = NoSimulation
UnitsIdle ==
    /\ TasksIdle
    /\ LdIdle
    /\ RcIdle
    /\ BisIdle
    /\ SimIdle

vars == <<unitVars, tieRoundsUp, l0, r0, boundary, l, r, last_restart_filename, classification,
          pc, raised, stdout, cwd, fs, simNow, evals, coldStarts, doneBefore, prev, runs, kills>>

NoFile == <<>>
NoRun == [ended |-> "none", evals |-> <<>>, l |-> <<>>, r |-> <<>>]
EmptyFs == [d \in {} |-> 0]

\* PolyDens.dat and SolvDens.dat of a directory: absent, or what they classify as.
NoProfiles == {}
Profiles(c) == {c}
\* get_classification() on the profile files.
ClassOf(profiles) == CHOOSE c \in profiles : TRUE
\* A directory right after mkdir: no profile files, no restart file;
\* input is the restart file its simulation reads (NoFile: none, a cold start).
FreshDir(input) == [profiles |-> NoProfiles, restart |-> FALSE, input |-> input]
\* A directory after its simulation ran to its end (write_restart restart.gcmc);
\* c is what the profile files classify as.
CompleteDir(dir, c) == [dir EXCEPT !.profiles = Profiles(c), !.restart = TRUE]
\* A directory whose simulation was killed: no restart file, and profile files
\* that are absent or hold the samples written so far.
KilledDir(dir, profiles) == [dir EXCEPT !.profiles = profiles, !.restart = FALSE]

Finished == {"CONVERGED", "AMBIGUOUS_TERMINATED"}
Terminal == Finished \cup {"CRASHED"}

Init ==
    /\ l0 \in LeftPoints
    /\ r0 \in GridPoints
    /\ boundary \in Boundaries
    /\ tieRoundsUp \in BOOLEAN
    /\ UnitsIdle
    /\ l = l0
    /\ r = r0
    /\ last_restart_filename = NoFile
    /\ classification = -1
    /\ pc = "job"
    /\ raised = "none"
    /\ stdout = <<>>
    /\ cwd = BaseDir
    /\ fs = EmptyFs
    /\ simNow = {}
    /\ evals = <<>>
    /\ coldStarts = 0
    /\ doneBefore = {}
    /\ prev = NoRun
    /\ runs = 1
    /\ kills = 0

\* ------------------------------------------------------------ run_in_subdir
\* Mutant: the simulation is run whether or not the directory exists.
MustSimulate_Always(subdir) == TRUE

\* `if not path.isdir(subdir)`
MustSimulate(subdir) == subdir \notin DOMAIN fs

\* mkdir(subdir); chdir(subdir); the simulator is spawned
EnterSubdir(subdir, input) ==
    /\ fs' = [d \in DOMAIN fs \cup {subdir} |->
                 IF d = subdir THEN FreshDir(input) ELSE fs[d]]
    /\ cwd' = subdir
    /\ simNow' = simNow \cup {subdir}

\* Mutant: the process stays in the subdirectory.
ChdirParent_Stay(dir) == dir

\* chdir('../') in a directory that lies directly under the base directory
ChdirParent(dir) == IF dir = BaseDir THEN <<"..">> ELSE BaseDir

\* ------------------------------------------------------------ bisection_job
\* The directory of the initial run exists: the run is skipped.
JobSkip ==
    /\ pc = "job"
    /\ ~MustSimulate(Subdir(Midpoint(l, r)))
    /\ last_restart_filename' = RestartFilename(Subdir(Midpoint(l, r)))
    /\ pc' = "bisect"
    /\ UNCHANGED <<unitVars, raised, stdout, tieRoundsUp, l0, r0, boundary, l, r, classification, cwd, fs, simNow, evals,
                   coldStarts, doneBefore, prev, runs, kills>>

\* Equilibration and initial GCMC run start in a new directory.
JobStart ==
    /\ pc = "job"
    /\ MustSimulate(Subdir(Midpoint(l, r)))
    /\ EnterSubdir(Subdir(Midpoint(l, r)), NoFile)
    /\ coldStarts' = coldStarts + 1
    /\ pc' = "job_sim"
    /\ UNCHANGED <<unitVars, raised, stdout, tieRoundsUp, l0, r0, boundary, l, r, last_restart_filename, classification,
                   evals, doneBefore, prev, runs, kills>>

\* The initial run ends (it reads no restart file); chdir('../');
\* recursive_bisect is called with the run's restart file.
JobFinish ==
    /\ pc = "job_sim"
    /\ \E c \in Classes : fs' = [fs EXCEPT ![cwd] = CompleteDir(fs[cwd], c)]
    /\ cwd' = ChdirParent(cwd)
    /\ last_restart_filename' = RestartFilename(Subdir(Midpoint(l, r)))
    /\ pc' = "bisect"
    /\ UNCHANGED <<unitVars, raised, stdout, tieRoundsUp, l0, r0, boundary, l, r, classification, simNow, evals,
                   coldStarts, doneBefore, prev, runs, kills>>

\* ------------------------------------------------------------ recursive_bisect
\* The lines recursive_bisect prints after a classification, and its last line.
ToTheLeft == "To the left of boundary."
ToTheRight == "To the right of boundary."
FoundBetween == "Found regime between boundary regimes, finishing."
FinishedRCB == "Finished RCB (distance below threshold)."

\* The distance test at the top of recursive_bisect.
BisectTest ==
    /\ pc = "bisect"
    /\ pc' = IF AboveThreshold(l, r) THEN "sample" ELSE "CONVERGED"
    /\ stdout' = IF AboveThreshold(l, r) THEN stdout ELSE Append(stdout, FinishedRCB)
    /\ UNCHANGED <<unitVars, raised, tieRoundsUp, l0, r0, boundary, l, r, last_restart_filename, classification,
                   cwd, fs, simNow, evals, coldStarts, doneBefore, prev, runs, kills>>

\* sample_coord: the midpoint's directory exists, the simulation is skipped.
SampleSkip ==
    /\ pc = "sample"
    /\ ~MustSimulate(Subdir(Midpoint(l, r)))
    /\ pc' = "classify"
    /\ UNCHANGED <<unitVars, raised, stdout, tieRoundsUp, l0, r0, boundary, l, r, last_restart_filename, classification,
                   cwd, fs, simNow, evals, coldStarts, doneBefore, prev, runs, kills>>

\* sample_coord: the simulation starts in a new directory.
SampleStart ==
    /\ pc = "sample"
    /\ MustSimulate(Subdir(Midpoint(l, r)))
    /\ EnterSubdir(Subdir(Midpoint(l, r)), last_restart_filename)
    /\ pc' = "sample_sim"
    /\ UNCHANGED <<unitVars, raised, stdout, tieRoundsUp, l0, r0, boundary, l, r, last_restart_filename, classification,
                   evals, coldStarts, doneBefore, prev, runs, kills>>

\* Whether read_restart finds its file.
RestartReadable(filename) ==
    /\ RestartDir(filename) \in DOMAIN fs
    /\ fs[RestartDir(filename)].restart

\* The continuation run ends; chdir('../').  Without its restart file LAMMPS
\* stops at read_restart and leaves the directory empty (run() does not check
\* the exit status).
SampleFinish ==
    /\ pc = "sample_sim"
    /\ IF RestartReadable(last_restart_filename)
       THEN \E c \in Classes : fs' = [fs EXCEPT ![cwd] = CompleteDir(fs[cwd], c)]
       ELSE fs' = fs
    /\ cwd' = ChdirParent(cwd)
    /\ pc' = "classify"
    /\ UNCHANGED <<unitVars, raised, stdout, tieRoundsUp, l0, r0, boundary, l, r, last_restart_filename, classification,
                   simNow, evals, coldStarts, doneBefore, prev, runs, kills>>

\* Mutant: the restart file that was passed in is passed on.
NextRestartFilename_Stale(old, subdir) == old

\* What sample_coord returns as the restart file to resume from next.
NextRestartFilename(old, subdir) == RestartFilename(subdir)

\* One classified midpoint.
Eval(p, c, filename) == [pt |-> p, cls |-> c, token |-> filename]

\* Mutant: profile files that are absent are read as holding no solvent.
RunClassifier_AbsentIsNone(profiles) ==
    [raised |-> "none", cls |-> IF profiles = NoProfiles THEN NONE ELSE ClassOf(profiles)]

\* RegimeClassifier(subdir).get_classification(): load_density opens PolyDens.dat
\* and SolvDens.dat; open() raises FileNotFoundError when the file is absent.
RunClassifier(profiles) ==
    IF profiles = NoProfiles
    THEN [raised |-> "FileNotFoundError", cls |-> -1]
    ELSE [raised |-> "none", cls |-> ClassOf(profiles)]

\* rc = RegimeClassifier(subdir); sample_coord returns its classification and
\* the restart file of subdir.  The call is outside recursive_bisect's try:
\* an exception of the classifier ends the task.
Classify ==
    /\ pc = "classify"
    /\ LET subdir == Subdir(Midpoint(l, r))
           outcome == RunClassifier(fs[subdir].profiles) IN
       IF outcome.raised # "none"
       THEN /\ pc' = "CRASHED"
            /\ raised' = outcome.raised
            /\ UNCHANGED <<classification, last_restart_filename, evals>>
       ELSE /\ classification' = outcome.cls
            /\ evals' = Append(evals, Eval(Midpoint(l, r), outcome.cls, last_restart_filename))
            /\ last_restart_filename' = NextRestartFilename(last_restart_filename, subdir)
            /\ pc' = "decide"
            /\ raised' = raised
    /\ UNCHANGED <<unitVars, stdout, tieRoundsUp, l0, r0, boundary, l, r, cwd, fs, simNow, coldStarts,
                   doneBefore, prev, runs, kills>>

\* Mutant: every classification counts as left of the boundary.
ToLeft_Always(c, b) == TRUE

\* Mutant: the left test with < for <=.
ToLeft_Strict(c, b) == RegimesIndex(c) < b[1]

\* Mutant: everything that is not to the left is to the right.
ToRight_Always(c, b) == TRUE

\* Mutant: the right test with == for >=.
ToRight_Equal(c, b) == RegimesIndex(c) = b[2]

\* "Determine if we're to the left or right"
ToLeft(c, b) == RegimesIndex(c) <= b[1]
ToRight(c, b) == RegimesIndex(c) >= b[2]

Decide ==
    /\ pc = "decide"
    /\ IF RegimesIndex(classification) = -1
       THEN pc' = "CRASHED" /\ raised' = "RuntimeError" /\ UNCHANGED <<l, r, stdout>>
       ELSE IF ToLeft(classification, boundary)
       THEN /\ l' = Midpoint(l, r) /\ r' = r /\ pc' = "bisect" /\ raised' = raised
            /\ stdout' = Append(stdout, ToTheLeft)
       ELSE IF ToRight(classification, boundary)
       THEN /\ l' = l /\ r' = Midpoint(l, r) /\ pc' = "bisect" /\ raised' = raised
            /\ stdout' = Append(stdout, ToTheRight)
       ELSE \* the `else` branch falls through to the last line of the function
            /\ pc' = "AMBIGUOUS_TERMINATED" /\ raised' = raised /\ UNCHANGED <<l, r>>
            /\ stdout' = stdout \o <<FoundBetween, FinishedRCB>>
    /\ UNCHANGED <<unitVars, tieRoundsUp, l0, r0, boundary, last_restart_filename, classification, cwd, fs,
                   simNow, evals, coldStarts, doneBefore, prev, runs, kills>>

\* ------------------------------------------------------------ scheduler
InSimulation == pc \in {"job_sim", "sample_sim"}

\* The scheduler kills the task.  A simulation killed part-way leaves its
\* directory without a restart file, and with profile files that are absent
\* or hold the samples written so far.
Kill ==
    /\ pc \notin Terminal \cup {"killed"}
    /\ kills < MaxKills
    /\ kills' = kills + 1
    /\ IF InSimulation
       THEN \E p \in {NoProfiles} \cup {Profiles(c) : c \in Classes} :
               fs' = [fs EXCEPT ![cwd] = KilledDir(fs[cwd], p)]
       ELSE fs' = fs
    /\ pc' = "killed"
    /\ doneBefore' = {d \in DOMAIN fs : fs[d].restart}
    /\ UNCHANGED <<unitVars, raised, stdout, tieRoundsUp, l0, r0, boundary, l, r, last_restart_filename, classification,
                   cwd, simNow, evals, coldStarts, prev, runs>>

\* The task is started again with the same arguments, in the same base directory.
Restart ==
    /\ pc \in Terminal \cup {"killed"}
    /\ runs < MaxRuns
    /\ runs' = runs + 1
    /\ prev' = IF pc \in Terminal
               THEN [ended |-> pc, evals |-> evals, l |-> l, r |-> r]
               ELSE prev
    /\ l' = l0
    /\ r' = r0
    /\ last_restart_filename' = NoFile
    /\ classification' = -1
    /\ pc' = "job"
    /\ raised' = "none"
    /\ stdout' = <<>>
    /\ cwd' = BaseDir
    /\ simNow' = {}
    /\ evals' = <<>>
    /\ UNCHANGED <<unitVars, tieRoundsUp, l0, r0, boundary, fs, coldStarts, doneBefore, kills>>

Next ==
    \/ JobSkip
    \/ JobStart
    \/ JobFinish
    \/ BisectTest
    \/ SampleSkip
    \/ SampleStart
    \/ SampleFinish
    \/ Classify
    \/ Decide
    \/ Kill
    \/ Restart

Spec == Init /\ [][Next]_vars

\* The steps of the task itself; Kill and Restart are the scheduler's.
ProgramStep ==
    \/ JobSkip
    \/ JobStart
    \/ JobFinish
    \/ BisectTest
    \/ SampleSkip
    \/ SampleStart
    \/ SampleFinish
    \/ Classify
    \/ Decide

\* A started task runs on until it ends or is killed.
FairSpec == Spec /\ WF_vars(ProgramStep)

\* ============================================================ two tasks
\* Two tasks of the job array (SLURM_ARRAY_TASK_ID selects the pair) run
\* bisection_job as separate processes in the same base directory: each has
\* its own variables and working directory, the directories are shared.
\* isdir() and mkdir() of run_in_subdir are separate steps of a task here.
Tasks == {1, 2}

\* Brackets along the grid line eps = GridOrigin.
ConcBrackets == {b \in LeftPoints \X LeftPoints : b[1][1] < b[2][1]}

\* A task as started by __main__ with pair (a, b, bd).
NewTask(a, b, bd) ==
    [l0 |-> a, r0 |-> b, boundary |-> bd, l |-> a, r |-> b,
     last_restart_filename |-> NoFile, classification |-> -1, pc |-> "job",
     raised |-> "none", cwd |-> BaseDir, evals |-> <<>>, touched |-> {}]

\* The single task of Spec is not running.
taskVars == <<l0, r0, boundary, l, r, last_restart_filename, classification, pc, raised, stdout, cwd,
              simNow, evals, coldStarts, doneBefore, prev, runs, kills>>
TaskIdle ==
    /\ l0 = <<>>
    /\ r0 = <<>>
    /\ boundary = <<>>
    /\ l = <<>>
    /\ r = <<>>
    /\ last_restart_filename = NoFile
    /\ classification = -1
    /\ pc = "off"
    /\ raised = "none"
    /\ stdout = <<>>
    /\ cwd = BaseDir
    /\ simNow = {}
    /\ evals = <<>>
    /\ coldStarts = 0
    /\ doneBefore = {}
    /\ prev = NoRun
    /\ runs = 0
    /\ kills = 0

\* What a step of the two tasks leaves alone.
concFrame == <<taskVars, tieRoundsUp, ld, rc, bis, sim>>

ConcInit ==
    /\ tieRoundsUp \in BOOLEAN
    /\ fs = EmptyFs
    /\ \E b1, b2 \in ConcBrackets, bd1, bd2 \in Boundaries :
          /\ b1 # b2
          /\ tasks = <<NewTask(b1[1], b1[2], bd1), NewTask(b2[1], b2[2], bd2)>>
    /\ TaskIdle
    /\ LdIdle
    /\ RcIdle
    /\ BisIdle
    /\ SimIdle

\* The directory of task t's current midpoint.
TaskSubdir(t) == Subdir(Midpoint(tasks[t].l, tasks[t].r))

\* bisection_job, run_in_subdir: `if not path.isdir(subdir)`
TJobCheck(t) ==
    /\ tasks[t].pc = "job"
    /\ tasks' = [tasks EXCEPT ![t] =
          IF MustSimulate(TaskSubdir(t))
          THEN [@ EXCEPT !.pc = "job_mkdir"]
          ELSE [@ EXCEPT !.pc = "bisect",
                         !.last_restart_filename = RestartFilename(TaskSubdir(t))]]
    /\ UNCHANGED <<fs, concFrame>>

\* mkdir(subdir) raises FileExistsError if the directory has appeared since
\* isdir(); otherwise chdir(subdir) and the simulator is spawned.
TMkdir(t, input, sim_pc) ==
    IF TaskSubdir(t) \in DOMAIN fs
    THEN /\ tasks' = [tasks EXCEPT ![t] =
                [@ EXCEPT !.pc = "CRASHED", !.raised = "FileExistsError"]]
         /\ fs' = fs
    ELSE /\ fs' = [d \in DOMAIN fs \cup {TaskSubdir(t)} |->
                     IF d = TaskSubdir(t) THEN FreshDir(input) ELSE fs[d]]
         /\ tasks' = [tasks EXCEPT ![t] =
                [@ EXCEPT !.pc = sim_pc, !.cwd = TaskSubdir(t),
                          !.touched = @ \cup {TaskSubdir(t)}]]

TJobMkdir(t) ==
    /\ tasks[t].pc = "job_mkdir"
    /\ TMkdir(t, NoFile, "job_sim")
    /\ UNCHANGED concFrame

\* The initial run ends; chdir('../'); recursive_bisect is called.
TJobFinish(t) ==
    /\ tasks[t].pc = "job_sim"
    /\ \E c \in Classes :
          fs' = [fs EXCEPT ![tasks[t].cwd] = CompleteDir(fs[tasks[t].cwd], c)]
    /\ tasks' = [tasks EXCEPT ![t] =
          [@ EXCEPT !.pc = "bisect", !.cwd = ChdirParent(@),
                    !.last_restart_filename = RestartFilename(TaskSubdir(t))]]
    /\ UNCHANGED concFrame

TBisectTest(t) ==
    /\ tasks[t].pc = "bisect"
    /\ tasks' = [tasks EXCEPT ![t] =
          [@ EXCEPT !.pc = IF AboveThreshold(tasks[t].l, tasks[t].r)
                           THEN "sample" ELSE "CONVERGED"]]
    /\ UNCHANGED <<fs, concFrame>>

\* sample_coord, run_in_subdir: `if not path.isdir(subdir)`
TSampleCheck(t) ==
    /\ tasks[t].pc = "sample"
    /\ tasks' = [tasks EXCEPT ![t] =
          [@ EXCEPT !.pc = IF MustSimulate(TaskSubdir(t))
                           THEN "sample_mkdir" ELSE "classify"]]
    /\ UNCHANGED <<fs, concFrame>>

TSampleMkdir(t) ==
    /\ tasks[t].pc = "sample_mkdir"
    /\ TMkdir(t, tasks[t].last_restart_filename, "sample_sim")
    /\ UNCHANGED concFrame

\* The continuation run ends (at once, without output, if read_restart does
\* not find its file); chdir('../').
TSampleFinish(t) ==
    /\ tasks[t].pc = "sample_sim"
    /\ IF RestartReadable(tasks[t].last_restart_filename)
       THEN \E c \in Classes :
               fs' = [fs EXCEPT ![tasks[t].cwd] = CompleteDir(fs[tasks[t].cwd], c)]
       ELSE fs' = fs
    /\ tasks' = [tasks EXCEPT ![t] = [@ EXCEPT !.pc = "classify", !.cwd = ChdirParent(@)]]
    /\ UNCHANGED concFrame

\* rc = RegimeClassifier(subdir); return rc.get_classification(), restart file
TClassify(t) ==
    /\ tasks[t].pc = "classify"
    /\ LET subdir == TaskSubdir(t)
           outcome == RunClassifier(fs[subdir].profiles) IN
       tasks' = [tasks EXCEPT ![t] =
          IF outcome.raised # "none"
          THEN [@ EXCEPT !.pc = "CRASHED", !.raised = outcome.raised,
                         !.touched = @ \cup {subdir}]
          ELSE [@ EXCEPT !.pc = "decide", !.classification = outcome.cls,
                         !.evals = Append(@, Eval(Midpoint(tasks[t].l, tasks[t].r), outcome.cls,
                                                  tasks[t].last_restart_filename)),
                         !.last_restart_filename =
                             NextRestartFilename(tasks[t].last_restart_filename, subdir),
                         !.touched = @ \cup {subdir}]]
    /\ UNCHANGED <<fs, concFrame>>

\* "Determine if we're to the left or right"
TDecide(t) ==
    /\ tasks[t].pc = "decide"
    /\ LET c == tasks[t].classification
           m == Midpoint(tasks[t].l, tasks[t].r) IN
       tasks' = [tasks EXCEPT ![t] =
          IF RegimesIndex(c) = -1
          THEN [@ EXCEPT !.pc = "CRASHED", !.raised = "RuntimeError"]
          ELSE IF ToLeft(c, tasks[t].boundary)
          THEN [@ EXCEPT !.l = m, !.pc = "bisect"]
          ELSE IF ToRight(c, tasks[t].boundary)
          THEN [@ EXCEPT !.r = m, !.pc = "bisect"]
          ELSE [@ EXCEPT !.pc = "AMBIGUOUS_TERMINATED"]]
    /\ UNCHANGED <<fs, concFrame>>

ConcNext ==
    \E t \in Tasks :
        \/ TJobCheck(t)
        \/ TJobMkdir(t)
        \/ TJobFinish(t)
        \/ TBisectTest(t)
        \/ TSampleCheck(t)
        \/ TSampleMkdir(t)
        \/ TSampleFinish(t)
        \/ TClassify(t)
        \/ TDecide(t)

ConcSpec == ConcInit /\ [][ConcNext]_vars

\* C12 as claimed: two tasks with different initial brackets in one base
\* directory never create, simulate in or classify the same output directory.
C12_Original ==
    tasks[1].touched \cap tasks[2].touched = {}
\* ============================================================ load_density
\* BrushDensityParser.load_density on an ave/chunk log.  A line of the file is
\* <<kind, c0, c1, c2, c3>>: a comment line ("#"), the line that starts a
\* time sample ("t": timestep, number of chunks, total count) or a chunk row
\* ("c": chunk number, coordinate, count, density).
CommentLine == <<"#", 0, 0, 0, 0>>
TimestepLine(n, len) == <<"t", 1000 * n, len, 0, 0>>
\* Row k of the log (counted from 0), for chunk number b.
ChunkRow(b, k) == <<"c", b, 5 * b, 100 + k, k>>

\* The file LAMMPS writes for time samples of the given lengths; k rows and
\* n samples were written before.
RECURSIVE Samples(_, _, _)
Samples(lengths, n, k) ==
    IF lengths = <<>>
    THEN <<>>
    ELSE <<TimestepLine(n, Head(lengths))>>
           \o [b \in 1..Head(lengths) |-> ChunkRow(b, k + b - 1)]
           \o Samples(Tail(lengths), n + 1, k + Head(lengths))
LogFile(lengths) == <<CommentLine, CommentLine, CommentLine>> \o Samples(lengths, 0, 0)

\* Logs of up to MaxSamples time samples of 1..MaxBins rows each.
SampleLengths == UNION {[1..n -> 1..MaxBins] : n \in 0..MaxSamples}

\* p.sub('', f.read()) with p = r'\n\d.*': the lines that start with a digit
\* (the timestep lines; chunk rows are indented) are removed.
StripTimestepLines(file) == SelectSeq(file, LAMBDA line : line[1] # "t")

\* Mutant: the count column is read for the density column.
UseCols_Count(line) == <<line[2], line[3], line[4]>>

\* usecols=(0, 1, 3)
UseCols(line) == <<line[2], line[3], line[5]>>

\* np.loadtxt(StringIO(string), usecols=(0, 1, 3)): comment lines are skipped.
LoadTxt(file) ==
    LET rows == SelectSeq(file, LAMBDA line : line[1] # "#")
    IN  [i \in 1..Len(rows) |-> UseCols(rows[i])]

\* np.nonzero(data[:, 0] == 1)[0]: the indices (from 0) of the rows of chunk 1.
ChunkOneIndices(data) == {i - 1 : i \in {j \in 1..Len(data) : data[j][1] = 1}}

\* Mutant: the index of the last row of chunk 1 is taken for the second.
NumChunks_Last(data) ==
    CHOOSE i \in ChunkOneIndices(data) : \A j \in ChunkOneIndices(data) : j <= i

\* np.nonzero(...)[0][1]: the second of these indices.
NumChunks(data) ==
    CHOOSE i \in ChunkOneIndices(data) :
        Cardinality({j \in ChunkOneIndices(data) : j < i}) = 1

\* data.reshape((-1, num_chunks, 3))
Reshape(data, num_chunks) ==
    [n \in 1..(Len(data) \div num_chunks) |->
        [b \in 1..num_chunks |-> data[(n - 1) * num_chunks + b]]]

\* load_density(filename): what it returns or raises.  With fewer than two
\* rows loadtxt does not return a 2-d array and data[:, 0] raises IndexError;
\* with fewer than two rows of chunk 1 the index [1] raises IndexError;
\* reshape raises ValueError when num_chunks does not divide the row count.
load_density(file) ==
    LET data == LoadTxt(StripTimestepLines(file)) IN
    IF Len(data) < 2 \/ Cardinality(ChunkOneIndices(data)) < 2
    THEN [raised |-> "IndexError", ret |-> NoArray]
    ELSE IF Len(data) % NumChunks(data) # 0
    THEN [raised |-> "ValueError", ret |-> NoArray]
    ELSE [raised |-> "none", ret |-> Reshape(data, NumChunks(data))]

\* What a call of load_density leaves alone.
ldFrame == <<taskVars, tieRoundsUp, fs, tasks, rc, bis, sim>>

\* load_density is called on some log.
LdInit ==
    /\ \E lengths \in SampleLengths :
          ld = [pc |-> "called", lengths |-> lengths, file |-> LogFile(lengths),
                raised |-> "none", ret |-> NoArray]
    /\ TaskIdle
    /\ TasksIdle
    /\ RcIdle
    /\ BisIdle
    /\ SimIdle
    /\ fs = EmptyFs
    /\ tieRoundsUp = FALSE

LoadDensity ==
    /\ ld.pc = "called"
    /\ ld' = [ld EXCEPT !.pc = "done",
                        !.raised = load_density(ld.file).raised,
                        !.ret = load_density(ld.file).ret]

    /\ UNCHANGED ldFrame

LdNext == LoadDensity

LdSpec == LdInit /\ [][LdNext]_vars

\* The log holds N >= minN time samples of the same number B >= 2 of rows.
UniformLog(minN) ==
    /\ Len(ld.lengths) >= minN
    /\ \A n \in 1..Len(ld.lengths) : ld.lengths[n] = ld.lengths[1] /\ ld.lengths[n] >= 2

\* The array returned has shape [N, B, 3] and its element [n, b] (from 0) is
\* row n * B + b of the log: chunk number, coordinate and density.
ReturnsRowsInOrder ==
    /\ ld.raised = "none"
    /\ Len(ld.ret) = Len(ld.lengths)
    /\ \A n \in 1..Len(ld.ret) :
          /\ Len(ld.ret[n]) = ld.lengths[1]
          /\ \A b \in 1..Len(ld.ret[n]) :
                /\ Len(ld.ret[n][b]) = 3
                /\ ld.ret[n][b] = <<b, 5 * b, (n - 1) * ld.lengths[1] + (b - 1)>>

\* C15 as claimed: for every log of N >= 1 time samples of B >= 2 rows each,
\* load_density returns the [N, B, 3] array of the rows in order.
C15_Original ==
    (ld.pc = "done" /\ UniformLog(1)) => ReturnsRowsInOrder

\* C15, amended: for every log of N >= 2 time samples of B >= 2 rows each,
\* load_density returns an array of shape [N, B, 3] whose element [n, b] is
\* row n * B + b of the log, so that the chunk column cycles 1..B N times in
\* row order; for a log of a single time sample it raises IndexError.
C15_ReshapesInOrder ==
    /\ (ld.pc = "done" /\ UniformLog(2)) => ReturnsRowsInOrder
    /\ (ld.pc = "done" /\ Len(ld.lengths) = 1) => ld.raised = "IndexError"

\* A log of three time samples of three rows each was returned as an array.
C15_Witness ==
    /\ ld.pc = "done"
    /\ ld.lengths = <<3, 3, 3>>
    /\ ld.raised = "none"
    /\ ld.ret[3][2][1] = 2

\* C16 as claimed: load_density returns an array only when every time sample
\* of the log has the same number of rows; a log with fewer than two rows of
\* chunk 1, with a row count that the inferred sample length does not
\* divide, or with time samples of differing lengths is rejected with an
\* exception and not reshaped.
C16_Original ==
    ld.pc = "done" =>
        /\ ld.raised = "none" =>
              \A n \in 1..Len(ld.lengths) : ld.lengths[n] = ld.lengths[1]
        /\ (\/ Len(ld.lengths) < 2
            \/ \E n \in 1..Len(ld.lengths) : ld.lengths[n] # ld.lengths[1])
              => (ld.raised # "none" /\ ld.ret = NoArray)

\* ============================================================ RegimeClassifier
\* The density column of the solvent profile.  dens_solv is the array that
\* load_density returned: time sample -> chunk -> density.  A time average is
\* kept exactly, as the sums `num` over `den` samples; den = 0 is the NaN
\* that np.mean gives (with a RuntimeWarning, no exception) for no samples.
SampleProfiles == [1..MaxBins -> 0..MaxDensity]

\* dens[np.s_[ta_trim:, :, :]]
TrimSlice(dens, ta_trim) == SubSeq(dens, ta_trim + 1, Len(dens))

RECURSIVE SumAxis0(_, _)
SumAxis0(a, b) == IF a = <<>> THEN 0 ELSE Head(a)[b] + SumAxis0(Tail(a), b)

\* np.mean(a, axis=0)
MeanAxis0(a) == [num |-> [b \in 1..MaxBins |-> SumAxis0(a, b)], den |-> Len(a)]

\* np.s_[:idx] and np.s_[idx:] as the chunk indices (from 0) they select
\* out of n chunks.
SliceTo(idx, n) == {i \in 0..(n - 1) : i < idx}
SliceFrom(idx, n) == {i \in 0..(n - 1) : i >= idx}

\* get_solv_area_in: profile_range = np.s_[:self.get_poly_inflection(...)]
InsideRange(idx, n) == SliceTo(idx, n)
\* get_solv_area_out: profile_range = np.s_[self.get_poly_inflection(...):]
OutsideRange(idx, n) == SliceFrom(idx, n)

\* np.trapz(y) over the chunks of a (contiguous) range, unit spacing: the sum
\* of (y[i] + y[i+1]) / 2 over neighbours i, i+1 both in the range; `twice`
\* is twice the numerator.  Over fewer than two chunks the sum is empty
\* (0.0); otherwise it is NaN when the profile is.
RECURSIVE TrapzTwice(_, _, _)
TrapzTwice(num, range, i) ==
    IF i + 1 >= Len(num)
    THEN 0
    ELSE (IF i \in range /\ (i + 1) \in range THEN num[i + 1] + num[i + 2] ELSE 0)
         + TrapzTwice(num, range, i + 1)

\* _get_area(profile_range)[0]
get_area(solv_ta, range) ==
    [twice |-> TrapzTwice(solv_ta.num, range, 0),
     den |-> solv_ta.den,
     nan |-> solv_ta.den = 0 /\ Cardinality(range) >= 2]

\* Mutant: the comparison with >= for >.
Exceeds_OrEqual(area, threshold) ==
    ~area.nan /\ area.twice >= 2 * threshold * area.den

\* area > threshold: false for NaN.
Exceeds(area, threshold) ==
    ~area.nan /\ area.twice > 2 * threshold * area.den

\* get_classification(in_threshold, out_threshold)
get_classification(solv_ta, idx, in_threshold, out_threshold) ==
    IF Exceeds(get_area(solv_ta, InsideRange(idx, Len(solv_ta.num))), in_threshold)
    THEN ABSORBED
    ELSE IF Exceeds(get_area(solv_ta, OutsideRange(idx, Len(solv_ta.num))), out_threshold)
    THEN ADSORBED
    ELSE NONE

\* What a step of the classifier leaves alone.
rcFrame == <<taskVars, tieRoundsUp, fs, tasks, ld, bis, sim>>
RcOthersIdle ==
    /\ TaskIdle
    /\ TasksIdle
    /\ LdIdle
    /\ BisIdle
    /\ SimIdle
    /\ fs = EmptyFs
    /\ tieRoundsUp = FALSE

\* A classifier after __init__: solv_ta is the time average of some samples,
\* or NaN; poly_inflection is the index get_poly_inflection returns for its
\* polymer profile.  The thresholds are those of the call to come.
RcInit ==
    /\ \E p \in SampleProfiles, nan \in BOOLEAN, idx \in 0..(MaxBins - 1),
          in_threshold, out_threshold \in 0..MaxThreshold :
          /\ nan => \A b \in 1..MaxBins : p[b] = 0
          /\ rc = [NoClassifier EXCEPT
                      !.pc = "constructed",
                      !.solv_ta = [num |-> p, den |-> IF nan THEN 0 ELSE 1],
                      !.poly_inflection = idx,
                      !.in_threshold = in_threshold,
                      !.out_threshold = out_threshold]
    /\ RcOthersIdle

GetSolvAreaIn ==
    /\ rc.pc = "constructed"
    /\ rc' = [rc EXCEPT !.pc = "returned", !.called = "get_solv_area_in",
                        !.area = get_area(rc.solv_ta,
                                          InsideRange(rc.poly_inflection, Len(rc.solv_ta.num)))]
    /\ UNCHANGED rcFrame

GetSolvAreaOut ==
    /\ rc.pc = "constructed"
    /\ rc' = [rc EXCEPT !.pc = "returned", !.called = "get_solv_area_out",
                        !.area = get_area(rc.solv_ta,
                                          OutsideRange(rc.poly_inflection, Len(rc.solv_ta.num)))]
    /\ UNCHANGED rcFrame

GetClassification ==
    /\ rc.pc = "constructed"
    /\ rc' = [rc EXCEPT !.pc = "returned", !.called = "get_classification",
                        !.classification =
                            get_classification(rc.solv_ta, rc.poly_inflection,
                                               rc.in_threshold, rc.out_threshold)]
    /\ UNCHANGED rcFrame

RcNext ==
    \/ GetSolvAreaIn
    \/ GetSolvAreaOut
    \/ GetClassification

RcSpec == RcInit /\ [][RcNext]_vars

\* RegimeClassifier(directory, ta_trim=...) is called on a density array of
\* at least two time samples (load_density returns no shorter one).
TrimInit ==
    /\ \E T \in 2..MaxTime, ta_trim \in 0..(MaxTime + 1) :
          \E dens \in [1..T -> SampleProfiles] :
              rc = [NoClassifier EXCEPT !.pc = "new", !.dens_solv = dens,
                                        !.ta_trim = ta_trim]
    /\ RcOthersIdle

\* __init__: the time average over the samples from ta_trim on.  No
\* statement of it raises when the slice is empty.
Construct ==
    /\ rc.pc = "new"
    /\ rc' = [rc EXCEPT !.pc = "constructed",
                        !.solv_ta = MeanAxis0(TrimSlice(rc.dens_solv, rc.ta_trim))]
    /\ UNCHANGED rcFrame

TrimNext == Construct

TrimSpec == TrimInit /\ [][TrimNext]_vars

\* ============================================================ the variants
\* The step of recursive_bisect that follows sample_coord, in run_rcb.py,
\* run_rcb_MPI.py and run_rcb_sbatch.py.
Variants == {"run_rcb", "run_rcb_MPI", "run_rcb_sbatch"}

\* REGIMES = (2, 1) of run_rcb.py and run_rcb_MPI.py
REGIMES_TWO == <<ABSORBED, ADSORBED>>

\* tuple.index(c): the position from 0, -1 for the ValueError it raises.
TupleIndex(tuple, c) ==
    IF \E i \in 1..Len(tuple) : tuple[i] = c
    THEN (CHOOSE i \in 1..Len(tuple) :
             tuple[i] = c /\ \A j \in 1..(i - 1) : tuple[j] # c) - 1
    ELSE -1

Goes(to) == [to |-> to, raised |-> "none", message |-> ""]
Raises(exception, message) == [to |-> "FAILED", raised |-> exception, message |-> message]

\* run_rcb.py and run_rcb_MPI.py: REGIMES.index(classification) is evaluated
\* in the `if` condition, outside any try; its ValueError leaves the function
\* before the `else` branch can be reached.
DecideTwoRegimes(c) ==
    IF TupleIndex(REGIMES_TWO, c) = -1
    THEN Raises("ValueError", "tuple.index(x): x not in tuple")
    ELSE IF TupleIndex(REGIMES_TWO, c) = 0
    THEN Goes("left")
    ELSE IF TupleIndex(REGIMES_TWO, c) = 1
    THEN Goes("right")
    ELSE Raises("RuntimeError", "This should not happen")

\* run_rcb_sbatch.py: the ValueError is caught and RuntimeError raised.
DecideBoundary(c, b) ==
    IF RegimesIndex(c) = -1
    THEN Raises("RuntimeError", "This should not happen")
    ELSE IF ToLeft(c, b)
    THEN Goes("left")
    ELSE IF ToRight(c, b)
    THEN Goes("right")
    ELSE Goes("finish")

DecideOf(variant, c, b) ==
    IF variant = "run_rcb_sbatch" THEN DecideBoundary(c, b) ELSE DecideTwoRegimes(c)

\* The regimes a variant is configured for.
RegimesOf(variant) == IF variant = "run_rcb_sbatch" THEN REGIMES ELSE REGIMES_TWO

\* Brackets wider than one grid step (wider than RCB_THRESHOLD of any variant).
WideBrackets == {b \in LeftPoints \X GridPoints : Norm2(b[1], b[2]) > GridStep * GridStep}

\* What a step of a variant leaves alone.
bisFrame == <<taskVars, tieRoundsUp, fs, tasks, ld, rc, sim>>

\* recursive_bisect of some variant has classified the midpoint of (l, r);
\* the classification is one the classifier returns.
BisInit ==
    /\ \E variant \in Variants, b \in WideBrackets, c \in Classes, bd \in Boundaries :
          /\ variant # "run_rcb_sbatch" => bd = <<0, 1>>
          /\ bis = [NoBisect EXCEPT !.pc = "decide", !.variant = variant,
                                    !.l = b[1], !.r = b[2], !.l_in = b[1], !.r_in = b[2],
                                    !.boundary = bd, !.classification = c]
    /\ TaskIdle
    /\ TasksIdle
    /\ LdIdle
    /\ RcIdle
    /\ SimIdle
    /\ fs = EmptyFs
    /\ tieRoundsUp = FALSE

\* "Determine if we're to the left or right"
BisDecide ==
    /\ bis.pc = "decide"
    /\ LET d == DecideOf(bis.variant, bis.classification, bis.boundary)
           m == Midpoint(bis.l, bis.r) IN
       bis' = [bis EXCEPT
                  !.pc = CASE d.to = "left" -> "bisect"
                           [] d.to = "right" -> "bisect"
                           [] d.to = "finish" -> "FINISHED"
                           [] OTHER -> "FAILED",
                  !.l = IF d.to = "left" THEN m ELSE @,
                  !.r = IF d.to = "right" THEN m ELSE @,
                  !.raised = d.raised,
                  !.message = d.message]
    /\ UNCHANGED bisFrame

BisNext == BisDecide

BisSpec == BisInit /\ [][BisNext]_vars

\* ============================================================ Simulation
\* Simulation.run_gcmc.  A value of dyn_vars is kept in units of 0.00001.
DynValues == {90000, 90002, 100000}
\* dyn_vars: no variable, or the variable epp.
DynVars == {<<>>} \cup {<<<<"epp", v>>>> : v \in DynValues}

\* '{:.4f}'.format(float(v)): v rounded to four decimals (no value of
\* DynValues lies half-way), in units of 0.0001.
Format4f(v) == (v + 5) \div 10

\* subdir = 'grid' + ''.join(['_{}{:.4f}'.format(k, float(v)) for k, v in dyn_vars.items()])
GridSubdir(dyn_vars) ==
    <<"grid">> \o [i \in 1..Len(dyn_vars) |-> <<dyn_vars[i][1], Format4f(dyn_vars[i][2])>>]

GridSubdirs == {GridSubdir(d) : d \in DynVars}

\* Mutant: the simulation is run in a dry run as well.
Productive_Always(dry_run) == TRUE

\* `if not self.dry_run`
Productive(dry_run) == ~dry_run

\* What a step of a Simulation leaves alone.
simFrame == <<taskVars, tieRoundsUp, fs, tasks, ld, rc, bis>>

\* A Simulation after __init__, in a base directory that holds the
\* subdirectories of earlier runs; has_initial_data_file: whether the
\* static_vars passed to run_gcmc hold the key 'initial_data_file'.
SimInit ==
    /\ \E dry_run, has_initial_data_file \in BOOLEAN, dirs \in SUBSET GridSubdirs :
          sim = [NoSimulation EXCEPT !.pc = "idle", !.dry_run = dry_run,
                                     !.has_initial_data_file = has_initial_data_file,
                                     !.dirs = dirs, !.dirs_before = dirs]
    /\ TaskIdle
    /\ TasksIdle
    /\ LdIdle
    /\ RcIdle
    /\ BisIdle
    /\ fs = EmptyFs
    /\ tieRoundsUp = FALSE

\* run_gcmc is called (sim.pc = "idle": no call is running).
Callable == sim.pc = "idle" /\ sim.calls < MaxCalls

\* run_gcmc, _run_in_subdir: the subdirectory exists.
RunGcmcSkip ==
    /\ Callable
    /\ \E dyn_vars \in DynVars :
          /\ GridSubdir(dyn_vars) \in sim.dirs
          /\ sim' = [sim EXCEPT !.calls = @ + 1, !.subdir = GridSubdir(dyn_vars),
                                !.printed = Append(@, "Found existing subdir")]
    /\ UNCHANGED simFrame

\* run_gcmc, _run_in_subdir: no such subdirectory, and a dry run.
RunGcmcDry ==
    /\ Callable
    /\ ~Productive(sim.dry_run)
    /\ \E dyn_vars \in DynVars :
          /\ GridSubdir(dyn_vars) \notin sim.dirs
          /\ sim' = [sim EXCEPT !.calls = @ + 1, !.subdir = GridSubdir(dyn_vars),
                                !.printed = Append(@, "Simulating")]
    /\ UNCHANGED simFrame

\* run_gcmc, _run_in_subdir: mkdir(subdir); chdir(subdir); the lookup of
\* lmp_vars['initial_data_file'] raises KeyError if the key is absent.
RunGcmcEnter ==
    /\ Callable
    /\ Productive(sim.dry_run)
    /\ \E dyn_vars \in DynVars :
          /\ GridSubdir(dyn_vars) \notin sim.dirs
          /\ sim' = [sim EXCEPT !.calls = @ + 1, !.subdir = GridSubdir(dyn_vars),
                                !.printed = Append(@, "Simulating"),
                                !.dirs = @ \cup {GridSubdir(dyn_vars)},
                                !.mkdirs = @ + 1,
                                !.chdirs = @ + 1,
                                !.cwd = GridSubdir(dyn_vars),
                                !.raised = IF sim.has_initial_data_file
                                           THEN "none" ELSE "KeyError",
                                !.pc = IF sim.has_initial_data_file
                                       THEN "in_subdir" ELSE "raised"]
    /\ UNCHANGED simFrame

\* _run_with_vars: the log file is opened for writing and LAMMPS is run.
RunWithVars ==
    /\ sim.pc = "in_subdir"
    /\ sim' = [sim EXCEPT !.pc = "ran", !.log_files = @ \cup {sim.cwd},
                          !.lammps_runs = @ + 1]
    /\ UNCHANGED simFrame

\* chdir('../'); print Finished
LeaveSubdir ==
    /\ sim.pc = "ran"
    /\ sim' = [sim EXCEPT !.pc = "idle", !.cwd = ChdirParent(@), !.chdirs = @ + 1,
                          !.printed = Append(@, "Finished")]
    /\ UNCHANGED simFrame

SimNext ==
    \/ RunGcmcSkip
    \/ RunGcmcDry
    \/ RunGcmcEnter
    \/ RunWithVars
    \/ LeaveSubdir

SimSpec == SimInit /\ [][SimNext]_vars

\* ============================================================ properties
\* Zero-based position of classification c in the ordered regime list
\* (ABSORBED, ADSORBED, NONE).
Ordinal(c) == CASE c = ABSORBED -> 0 [] c = ADSORBED -> 1 [] c = NONE -> 2

\* The separation of the bracket as stored (float64) is strictly greater than
\* the tolerance 0.05 = 1/20: 20 * |a - b| > CoordDen, squared; a bracket of
\* exact separation 0.05 is above it when its coordinates were rounded apart.
SeparationExceedsTolerance(a, b) ==
    \/ 400 * Norm2(a, b) > CoordDen * CoordDen
    \/ 400 * Norm2(a, b) = CoordDen * CoordDen /\ tieRoundsUp

\* The point exactly half-way between a and b.
IsHalfway(m, a, b) == 2 * m[1] = a[1] + b[1] /\ 2 * m[2] = a[2] + b[2]

\* The task took a step of its own (it was not killed or restarted).
TaskStep == pc' # "killed" /\ runs' = runs

\* C1: after the midpoint of a non-terminal bracket is classified, a
\* classification at a regime position <= boundary[0] makes (midpoint, right)
\* the next bracket, right unchanged, and one at a position >= boundary[1]
\* makes (left, midpoint) the next bracket, left unchanged.
C1_NarrowingRule ==
    [][(pc = "decide" /\ TaskStep) =>
         /\ Ordinal(classification) <= boundary[1] =>
              (IsHalfway(l', l, r) /\ r' = r /\ pc' = "bisect")
         /\ Ordinal(classification) >= boundary[2] =>
              (l' = l /\ IsHalfway(r', l, r) /\ pc' = "bisect")]_vars

\* Both rules have acted: each bound was replaced by a midpoint.
C1_Witness ==
    /\ pc = "bisect"
    /\ Len(evals) >= 2
    /\ l # l0
    /\ r # r0

EvaluationsBegun ==
    Len(evals) + (IF pc \in {"sample", "sample_sim", "classify"} THEN 1 ELSE 0)

\* C3 as claimed: the n-th midpoint evaluation happens only while
\* initial_separation / 2^(n-1) > tolerance, that is
\* n <= ceil(log2(initial_separation / tolerance)).
C3_Original ==
    EvaluationsBegun >= 1 =>
        400 * Norm2(l0, r0) > CoordDen * CoordDen * 4 ^ (EvaluationsBegun - 1)

\* C3, amended: whatever the classifications are, every narrowing step halves
\* the bracket separation (up to rounding), the n-th midpoint evaluation
\* happens only while initial_separation / 2^(n-1) >= tolerance (so
\* n <= ceil(log2(initial_separation / tolerance)) + 1), and every started
\* search ends (or is killed).
C3_Terminates ==
    /\ [][(pc = "decide" /\ pc' = "bisect") => 4 * Norm2(l', r') = Norm2(l, r)]_vars
    /\ [](EvaluationsBegun >= 1 =>
            400 * Norm2(l0, r0) >= CoordDen * CoordDen * 4 ^ (EvaluationsBegun - 1))
    /\ (pc = "job") ~> (pc \in Terminal \cup {"killed"})

\* A search that evaluated one midpoint more than the claimed bound: its
\* initial separation is 2 * tolerance and it classified two midpoints.
C3_Witness ==
    /\ pc = "CONVERGED"
    /\ Len(evals) = 2
    /\ 400 * Norm2(l0, r0) = CoordDen * CoordDen * 4

\* The 1D segment of C4: both bounds on one line of constant eps, the left
\* bound at epp < 1.0 and the right bound at epp > 1.0, boundary (0, 1).
SegmentAcrossOne ==
    /\ l0[2] = r0[2]
    /\ l0[1] < One
    /\ r0[1] > One
    /\ boundary = <<0, 1>>

\* Every classification so far is that of the classify function of C4:
\* ADSORBED for x < 1.0 and ABSORBED for x >= 1.0.
ClassifiedAdsorbedBelowOne ==
    \A i \in 1..Len(evals) :
        evals[i].cls = (IF evals[i].pt[1] < One THEN ADSORBED ELSE ABSORBED)

\* The same with the two regimes exchanged: ABSORBED for x < 1.0 and
\* ADSORBED for x >= 1.0.
ClassifiedAbsorbedBelowOne ==
    \A i \in 1..Len(evals) :
        evals[i].cls = (IF evals[i].pt[1] < One THEN ABSORBED ELSE ADSORBED)

\* The bracket contains x = 1.0 and its midpoint lies within the tolerance
\* 0.05 = 1/20 of 1.0:  |(l.x + r.x) / 2 - 1.0| <= 1/20.
BracketHoldsOne ==
    /\ l[1] <= One
    /\ One <= r[1]
    /\ 10 * (l[1] + r[1] - 2 * One) <= CoordDen
    /\ 10 * (2 * One - l[1] - r[1]) <= CoordDen

\* C4 as claimed: with ADSORBED for x < 1.0 and ABSORBED for x >= 1.0 the
\* search over such a segment ends CONVERGED on a bracket that contains 1.0.
\* (A search that CRASHED was not classified by that function: it returns a
\* classification for every midpoint.)
C4_Original ==
    (SegmentAcrossOne /\ ClassifiedAdsorbedBelowOne /\ pc \in Finished) =>
        (pc = "CONVERGED" /\ BracketHoldsOne)

\* C4, amended: with ABSORBED for x < 1.0 and ADSORBED for x >= 1.0 (the
\* order of REGIMES) the search over such a segment never ends ambiguous,
\* and ends CONVERGED on a bracket that contains 1.0; while it runs the
\* bracket contains 1.0 as well.
C4_ConvergesOnBoundary ==
    (SegmentAcrossOne /\ ClassifiedAbsorbedBelowOne) =>
        /\ l[1] < One
        /\ One <= r[1]
        /\ pc \in Finished => (pc = "CONVERGED" /\ BracketHoldsOne)

\* Such a search converged after narrowing from both sides.
C4_Witness ==
    /\ SegmentAcrossOne
    /\ ClassifiedAbsorbedBelowOne
    /\ pc = "CONVERGED"
    /\ l # l0
    /\ r # r0

\* The last classified midpoint lies strictly between the boundary regimes.
BetweenBoundaryRegimes(c) ==
    boundary[1] < Ordinal(c) /\ Ordinal(c) < boundary[2]

\* C5: a midpoint classified strictly between boundary[0] and boundary[1]
\* ends the search AMBIGUOUS_TERMINATED: the bracket stays as it was, still
\* wider than the tolerance, and that search simulates and classifies no more.
C5_AmbiguousStops ==
    /\ [][(pc = "decide" /\ BetweenBoundaryRegimes(classification) /\ TaskStep) =>
            (pc' = "AMBIGUOUS_TERMINATED"
               /\ UNCHANGED <<l, r, fs, simNow, evals, classification>>)]_vars
    /\ [][(pc = "AMBIGUOUS_TERMINATED" /\ runs' = runs) =>
            UNCHANGED <<l, r, fs, simNow, evals, classification>>]_vars
    /\ [](pc = "AMBIGUOUS_TERMINATED" =>
            /\ BetweenBoundaryRegimes(classification)
            /\ SeparationExceedsTolerance(l, r)
            /\ IsHalfway(evals[Len(evals)].pt, l, r))

\* A search stopped as ambiguous after it had narrowed the bracket.
C5_Witness ==
    /\ pc = "AMBIGUOUS_TERMINATED"
    /\ Len(evals) >= 2

\* C6 as claimed: with boundary (0, 1), a midpoint classified ABSORBED, or at
\* regime position 2, ends the search AMBIGUOUS_TERMINATED.
C6_Original ==
    [][(/\ pc = "decide"
        /\ boundary = <<0, 1>>
        /\ (classification = ABSORBED \/ Ordinal(classification) = 2)
        /\ TaskStep) => pc' = "AMBIGUOUS_TERMINATED"]_vars

\* C6, amended: with REGIMES = (ABSORBED, ADSORBED, NONE) and boundary (0, 1)
\* no classification ends the search AMBIGUOUS_TERMINATED: a midpoint at
\* regime position 2 (NONE) is to the right, the search goes on with
\* (left, midpoint); ABSORBED is at position 0, the search goes on with
\* (midpoint, right).
C6_OvershootNarrows ==
    /\ [](boundary = <<0, 1>> => pc # "AMBIGUOUS_TERMINATED")
    /\ [][(pc = "decide" /\ boundary = <<0, 1>> /\ TaskStep) =>
            /\ pc' = "bisect"
            /\ classification = NONE => (l' = l /\ IsHalfway(r', l, r))
            /\ classification = ABSORBED => (IsHalfway(l', l, r) /\ r' = r)]_vars

\* With boundary (0, 1) a midpoint classified NONE became the right bound.
C6_Witness ==
    /\ boundary = <<0, 1>>
    /\ pc = "bisect"
    /\ Len(evals) >= 1
    /\ evals[Len(evals)].cls = NONE
    /\ r = evals[Len(evals)].pt

\* The directory of the current midpoint.
MidpointDir == <<"rcb", (l[1] + r[1]) \div 2, (l[2] + r[2]) \div 2>>

\* C7: when sample_coord finds the midpoint's directory in place, the
\* simulator is not invoked and no directory changes, yet the classifier is
\* run on that directory and what it returns is the classification the
\* bisection step decides on.
C7_SkipStillClassifies ==
    /\ [][(pc = "sample" /\ MidpointDir \in DOMAIN fs /\ TaskStep) =>
            (pc' = "classify" /\ UNCHANGED <<fs, simNow, coldStarts, cwd>>)]_vars
    /\ [][(pc = "classify" /\ TaskStep) =>
            /\ fs' = fs
            /\ pc' \in {"decide", "CRASHED"}
            /\ pc' = "decide" => fs[MidpointDir].profiles = {classification'}]_vars
    /\ [](pc = "decide" => fs[MidpointDir].profiles = {classification})

\* A midpoint other than the first was classified from a directory that an
\* earlier start had left, without a simulation.
C7_Witness ==
    /\ pc = "decide"
    /\ runs >= 2
    /\ Len(evals) >= 2
    /\ MidpointDir \notin simNow

\* C8: a start of the task after a start that ran to its end (also one that
\* ended with the classifier's exception) invokes the
\* simulator for no point, classifies the same midpoints in the same order
\* with the same results, and ends in the same state with the same bracket.
C8_SecondRunRepeats ==
    prev.ended # "none" =>
        /\ simNow = {}
        /\ Len(evals) <= Len(prev.evals)
        /\ \A i \in 1..Len(evals) :
              evals[i].pt = prev.evals[i].pt /\ evals[i].cls = prev.evals[i].cls
        /\ pc \in Terminal =>
              /\ pc = prev.ended
              /\ Len(evals) = Len(prev.evals)
              /\ l = prev.l
              /\ r = prev.r

\* A second start repeated a first one that had classified three midpoints.
C8_Witness ==
    /\ prev.ended # "none"
    /\ pc \in Terminal
    /\ Len(evals) >= 3

\* The restart file of the evaluation before the i-th: that of the initial
\* run for the first.
TokenBefore(i) ==
    IF i = 1
    THEN <<"..", <<"rcb", (l0[1] + r0[1]) \div 2, (l0[2] + r0[2]) \div 2>>, "restart.gcmc">>
    ELSE <<"..", <<"rcb", evals[i - 1].pt[1], evals[i - 1].pt[2]>>, "restart.gcmc">>

C10_NoRedoAfterKill ==
    (kills >= 1 /\ pc # "killed") => simNow \cap doneBefore = {}

\* A restarted task went past the completed points and simulated a new one.
C10_Witness ==
    /\ kills >= 1
    /\ pc # "killed"
    /\ Cardinality(doneBefore) >= 2
    /\ simNow # {}

\* C11: when the classifier is run on a midpoint directory that this start
\* found in place and that lacks its profile files, it raises the exception
\* of open() for an absent file (FileNotFoundError, the MissingInputError of
\* the error taxonomy), which ends the task: the bracket, the directories and
\* the classified midpoints stay as they were, no simulation is started, and
\* the task takes no further step (only the scheduler can start it again).
C11_MissingProfilesFatal ==
    /\ [][(/\ pc = "classify"
           /\ MidpointDir \notin simNow
           /\ fs[MidpointDir].profiles = {}
           /\ TaskStep) =>
            /\ pc' = "CRASHED"
            /\ raised' = "FileNotFoundError"
            /\ UNCHANGED <<l, r, fs, simNow, evals, classification, coldStarts,
                           last_restart_filename>>]_vars
    /\ [][pc = "CRASHED" => runs' = runs + 1]_vars
    /\ [](raised = "FileNotFoundError" =>
            (pc = "CRASHED" /\ fs[MidpointDir].profiles = {}))

\* A restarted task classified its first midpoint, then found the directory
\* of the second in place without profile files and ended there.
C11_Witness ==
    /\ pc = "CRASHED"
    /\ raised = "FileNotFoundError"
    /\ Len(evals) >= 1
    /\ MidpointDir \notin simNow
    /\ l # l0 \/ r # r0

\* The areas get_classification compares with the thresholds.
AreaInside == get_area(rc.solv_ta, InsideRange(rc.poly_inflection, MaxBins))
AreaOutside == get_area(rc.solv_ta, OutsideRange(rc.poly_inflection, MaxBins))

\* The area is a number strictly greater than the threshold.
StrictlyAbove(area, threshold) ==
    ~area.nan /\ area.twice > 2 * threshold * area.den

\* The area is a number equal to the threshold.
EqualTo(area, threshold) ==
    ~area.nan /\ area.den > 0 /\ area.twice = 2 * threshold * area.den

\* C13: get_classification returns one of 0, 1, 2: 2 (ABSORBED) exactly when
\* the inside area is strictly greater than in_threshold, whatever the
\* outside area is; 1 (ADSORBED) exactly when it is not and the outside area
\* is strictly greater than out_threshold; 0 (NONE) otherwise.  An area
\* equal to its threshold does not pass it.
C13_ClassificationRule ==
    (rc.pc = "returned" /\ rc.called = "get_classification") =>
        /\ rc.classification \in {0, 1, 2}
        /\ rc.classification = 2 <=> StrictlyAbove(AreaInside, rc.in_threshold)
        /\ rc.classification = 1 <=>
              (~StrictlyAbove(AreaInside, rc.in_threshold)
                  /\ StrictlyAbove(AreaOutside, rc.out_threshold))
        /\ rc.classification = 0 <=>
              (~StrictlyAbove(AreaInside, rc.in_threshold)
                  /\ ~StrictlyAbove(AreaOutside, rc.out_threshold))
        /\ EqualTo(AreaInside, rc.in_threshold) => rc.classification # 2
        /\ EqualTo(AreaOutside, rc.out_threshold) => rc.classification # 1

\* An inside area of exactly in_threshold > 0 was not classified ABSORBED;
\* the outside area was above its threshold and the result ADSORBED.
C13_Witness ==
    /\ rc.pc = "returned"
    /\ rc.called = "get_classification"
    /\ rc.in_threshold >= 1
    /\ EqualTo(AreaInside, rc.in_threshold)
    /\ StrictlyAbove(AreaOutside, rc.out_threshold)
    /\ rc.classification = 1

\* C14 as claimed: with the inflection point at chunk index i, the inside
\* area is the integral over the chunks up to and including i, the outside
\* area the integral over the chunks strictly above i.
C14_Original ==
    rc.pc = "returned" =>
        /\ rc.called = "get_solv_area_in" =>
              rc.area = get_area(rc.solv_ta, {k \in 0..(MaxBins - 1) : k <= rc.poly_inflection})
        /\ rc.called = "get_solv_area_out" =>
              rc.area = get_area(rc.solv_ta, {k \in 0..(MaxBins - 1) : k > rc.poly_inflection})

\* C17 as claimed: built with ta_trim = k < T on T time samples, the
\* classifier averages exactly the T - k samples k..T-1; with k >= T the
\* construction does not complete (it raises).
C17_Original ==
    /\ (rc.pc = "constructed" /\ rc.ta_trim < Len(rc.dens_solv)) =>
          /\ rc.solv_ta.den = Len(rc.dens_solv) - rc.ta_trim
          /\ \A b \in 1..MaxBins :
                rc.solv_ta.num[b] =
                    SumAxis0([n \in 1..(Len(rc.dens_solv) - rc.ta_trim) |->
                                 rc.dens_solv[rc.ta_trim + n]], b)
    /\ rc.ta_trim >= Len(rc.dens_solv) => rc.pc # "constructed"

\* The directory of the initial equilibration + GCMC run.
InitialDir == <<"rcb", (l0[1] + r0[1]) \div 2, (l0[2] + r0[2]) \div 2>>

C19_Original ==
    (/\ bis.pc # "decide"
     /\ \A i \in 1..Len(RegimesOf(bis.variant)) :
           RegimesOf(bis.variant)[i] # bis.classification) =>
        /\ bis.pc = "FAILED"
        /\ bis.raised = "RuntimeError"
        /\ bis.message = "This should not happen"
        /\ bis.l = bis.l_in
        /\ bis.r = bis.r_in

\* C20: a Simulation constructed with dry_run true creates no directory,
\* never changes the working directory, never runs LAMMPS and writes no log
\* file, whether the subdirectory of a call exists or not; every call of
\* run_gcmc returns at once.
C20_DryRunDoesNothing ==
    sim.dry_run =>
        /\ sim.dirs = sim.dirs_before
        /\ sim.mkdirs = 0
        /\ sim.chdirs = 0
        /\ sim.cwd = BaseDir
        /\ sim.lammps_runs = 0
        /\ sim.log_files = {}
        /\ sim.pc = "idle"
        /\ sim.raised = "none"

\* A dry run was called for a subdirectory that exists and for one that
\* does not.
C20_Witness ==
    /\ sim.dry_run
    /\ sim.calls = 2
    /\ \E i, j \in 1..Len(sim.printed) :
          sim.printed[i] = "Simulating" /\ sim.printed[j] = "Found existing subdir"

\* The complete output of a finished simulation: both profile files and the
\* restart file.
CompleteOutput(dir) == dir.profiles # NoProfiles /\ dir.restart

\* run_in_subdir is about to be called for a directory that exists.
AboutToSkip ==
    /\ pc \in {"job", "sample"}
    /\ ~MustSimulate(Subdir(Midpoint(l, r)))

\* C21 as claimed: a directory exists only if its simulation ran to its end,
\* also after a kill and a restart, so that every directory run_in_subdir
\* skips holds both profile files and the restart file of a finished run.
C21_Original ==
    AboutToSkip => CompleteOutput(fs[Subdir(Midpoint(l, r))])

\* Position of p along the initial segment, and its offset from the line
\* through l0 and r0.
Along(p) == (p[1] - l0[1]) * (r0[1] - l0[1]) + (p[2] - l0[2]) * (r0[2] - l0[2])
Offset(p) == (p[1] - l0[1]) * (r0[2] - l0[2]) - (p[2] - l0[2]) * (r0[1] - l0[1])
OnInitialSegment(p) == Offset(p) = 0 /\ 0 <= Along(p) /\ Along(p) <= Norm2(l0, r0)

\* p was classified, since this start, at a regime position in positions.
ClassifiedAt(p, positions) ==
    \E i \in 1..Len(evals) :
        evals[i].pt = p /\ RegimesIndex(evals[i].cls) \in positions

\* C22: a left endpoint installed by the search (a former midpoint) was
\* classified at a regime position <= boundary[0], a right endpoint installed
\* by the search at a position >= boundary[1], and the bracket is a
\* sub-segment of the initial segment.
C22_EndpointsConsistent ==
    pc # "off" =>
        /\ l # l0 => ClassifiedAt(l, 0..boundary[1])
        /\ r # r0 => ClassifiedAt(r, boundary[2]..(Len(REGIMES) - 1))
        /\ OnInitialSegment(l)
        /\ OnInitialSegment(r)
        /\ Along(l) <= Along(r)

\* Both endpoints of the bracket were installed by the search.
C22_Witness ==
    /\ pc = "bisect"
    /\ l # l0
    /\ r # r0

\* How many times recursive_bisect printed a line since this start.
Printed(line) == Cardinality({i \in 1..Len(stdout) : stdout[i] = line})

\* C23 as claimed: 'Finished RCB (distance below threshold)' is printed once
\* by a search that converged and never otherwise: only with a final bracket
\* separation <= RCB_THRESHOLD, and not by a search that stopped because the
\* midpoint fell in a regime between the two boundary regimes.
C23_Original ==
    /\ Printed(FinishedRCB) <= 1
    /\ pc = "CONVERGED" => Printed(FinishedRCB) = 1
    /\ Printed(FinishedRCB) = 1 => ~AboveThreshold(l, r)
    /\ pc = "AMBIGUOUS_TERMINATED" =>
          /\ Printed(FoundBetween) = 1
          /\ Printed(FinishedRCB) = 0

\* The task is running, or has ended, outside run_in_subdir: before a call,
\* after a return, or at the end of the task.
OutsideRunInSubdir ==
    pc \in {"job", "bisect", "sample", "classify", "decide"} \cup Terminal

MidpointExact ==
    pc \in {"job", "sample"} =>
        (l[1] + r[1]) % 2 = 0 /\ (l[2] + r[2]) % 2 = 0

====
